---------------------------- MODULE Spec2Model ----------------------------
(***************************************************************************)
(* A model of ChromaCal (ZAPDevtz/chromacal):                              *)
(*   - the binary ICC profile encoder (src/utils/iccProfileGenerator.ts),  *)
(*   - the analysis call and the Report that shows its result              *)
(*     (src/services/geminiService.ts, src/components/Report.tsx),         *)
(*   - the camera sensor session (src/components/SensorMode.tsx),          *)
(*   - the pattern wizard and the App (src/unnamed/part_006, part_000).    *)
(* Each subsystem has its own specifications: SpecICC, SpecPair and        *)
(* SpecTwice for the encoder, SpecReport and SpecDownload for the Report,  *)
(* SpecSampler, SpecSession, SpecUniform, SpecUniformFair and SpecFocus    *)
(* for the sensor, SpecPattern for the wizard.  The variables of the other *)
(* subsystems stay at their idle values.                                   *)
(*                                                                         *)
(* Numbers.  JavaScript numbers that are not integers (gains, gamma, the   *)
(* XYZ primaries) are modelled as exact rationals [n |-> _, d |-> _] with  *)
(* d > 0.  The doubles the code computes differ from the exact values by   *)
(* less than 1e-15, and for every input drawn below no exact value lies    *)
(* that close to a point where floor or round jumps, so floor and round    *)
(* agree with the code's.  Strings are sequences of UTF-16 code units.     *)
(***************************************************************************)
EXTENDS Integers, Sequences, FiniteSets, TLC

VARIABLES
    encResult,   \* the CalibrationResult handed to generateICCProfileBlob
    now,         \* the clock read by new Date() during the encoding
    blob,        \* the bytes of the Blob returned, <<>> before the call
    encOther,    \* a second CalibrationResult encoded at the same clock time
    blobOther    \* the bytes returned for it, <<>> before the call

iccVars == <<encResult, now, blob, encOther, blobOther>>

VARIABLES
    apiKey,      \* geminiService's module constant: TRUE iff a key was found
    settings,    \* App's settings state, the Report's settings prop
    result,      \* Report's result state
    loading,     \* Report's loading state
    pending,     \* the analyzeCalibration calls of fetchAnalysis not yet settled
    nextReq,     \* number of fetchAnalysis runs so far
    lastCall     \* history: the analyzeCalibration call that settled last

reportVars == <<apiKey, settings, result, loading, pending, nextReq, lastCall>>

VARIABLES
    mounted,           \* SensorMode is mounted
    camera,            \* getUserMedia's promise: "pending", "granted", "denied"
    tracksLive,        \* the acquired MediaStream has a running track
    stream,            \* stream state: "none" or "media"
    srcObject,         \* videoRef.current.srcObject has been set
    error,             \* error state is a non-empty message
    device,            \* what the camera track offers (see Devices)
    scene,             \* the frames the camera can deliver in this session
    frame,             \* the frame the <video> shows, NoFrame before the first
    frameChanges,      \* number of times the shown frame has changed
    paused,            \* the <video> is paused
    measuredRGB,       \* measuredRGB state
    isFrozen,          \* isFrozen state
    isStable,          \* isStable state
    history,           \* historyRef.current
    calibrationStage,  \* calibrationStage state
    isHardwareLocked,  \* isHardwareLocked state
    referenceWhite,    \* referenceWhite state, NoRGB for null
    effectHandle,      \* the callback requested by the effect and not yet run
    loops,             \* callbacks requested by processFrame itself, not yet run
    lockCalls,         \* handleLockExposure calls waiting for applyConstraints
    trackModes,        \* exposureMode, whiteBalanceMode, focusMode of the track
    emitted,           \* history: every sample pushed, in arrival order
    lastLockWhite,     \* history: measuredRGB at the latest lock action
    lockSettled,       \* history: the handleLockExposure call that finished last
    focusPoint,        \* focusPoint state is not null
    focusCalls,        \* handleTapToFocus calls waiting for applyConstraints
    focusSettled       \* history: the tap-to-focus applyConstraints settled last

focusVars == <<focusPoint, focusCalls, focusSettled>>

cameraVars == <<mounted, camera, tracksLive, stream, srcObject, error, device,
                focusVars>>

videoVars == <<scene, frame, frameChanges, paused>>

sampleVars == <<measuredRGB, isStable, history, emitted>>

rafVars == <<isFrozen, effectHandle, loops>>

lockVars == <<calibrationStage, isHardwareLocked, referenceWhite, lockCalls,
              trackModes, lastLockWhite, lockSettled>>

sensorVars == <<cameraVars, videoVars, sampleVars, rafVars, lockVars>>

VARIABLES
    mode,            \* App's mode state
    appMeasurements, \* App's measurements state
    points,          \* the elements of the TARGET_POINTS array
    measurements,    \* PatternGenerator's measurements state (an array)
    currentIndex,    \* PatternGenerator's currentIndex state
    manualR,         \* PatternGenerator's manualR state
    manualG,         \* PatternGenerator's manualG state
    manualB,         \* PatternGenerator's manualB state
    isUIVisible      \* PatternGenerator's isUIVisible state

manualVars == <<manualR, manualG, manualB>>

patternVars == <<mode, appMeasurements, points, measurements, currentIndex,
                 manualVars, isUIVisible>>

vars == <<iccVars, reportVars, sensorVars, patternVars>>

(***************************************************************************)
(* Bounds of the model.                                                    *)
(***************************************************************************)
MaxNameLen == 4      \* longest profileName drawn
GainDen == 4         \* gains are drawn as multiples of 1/GainDen
GammaDen == 10       \* gammas are drawn as multiples of 1/GammaDen
MaxRequests == 2     \* fetchAnalysis runs in one Report session
MaxSamples == 11     \* samples pushed in a session of SpecSampler
MaxFrameChanges == 1 \* changes of the camera's picture in a session
MaxLoops == 2        \* processFrame callbacks pending at once
MaxSessionSamples == 2  \* samples pushed in a session of SpecSession
MaxLockCalls == 2    \* handleLockExposure calls in flight at once
MaxFocusCalls == 1   \* handleTapToFocus calls in flight at once

(***************************************************************************)
(* Rationals.                                                              *)
(***************************************************************************)
Rat(n, d) == [n |-> n, d |-> d]

RatMul(a, b) == [n |-> a.n * b.n, d |-> a.d * b.d]

\* Math.floor
Floor(v) == v.n \div v.d

\* Math.round: the nearest integer, halves rounded up
Round(v) == (2 * v.n + v.d) \div (2 * v.d)

\* Math.floor((value - whole) * 65536), the multiplication by 65536 done in
\* two steps of 256 so that no intermediate value leaves 32 bits
FloorFrac65536(v) ==
    LET r  == v.n % v.d
        q1 == (r * 256) \div v.d
        r1 == (r * 256) % v.d
        q2 == (r1 * 256) \div v.d
    IN  q1 * 256 + q2

(***************************************************************************)
(* BinaryWriter: data is the writer's number[]; each operator returns    *)
(* the array after the call.                                               *)
(***************************************************************************)
writeU8(data, value) == Append(data, value % 256)

writeU16(data, value) ==
    data \o << (value \div 256) % 256, value % 256 >>

writeU32(data, value) ==
    data \o << (value \div 16777216) % 256, (value \div 65536) % 256,
               (value \div 256) % 256, value % 256 >>

\* str.charCodeAt(i) || 0 for i = 0..3: a missing character is written as 0
writeTagSig(data, str) ==
    data \o [i \in 1..4 |-> IF i <= Len(str) THEN str[i] ELSE 0]

\* pushes the code units as they are (not masked to a byte)
writeString(data, str) == data \o str

\* an encoder that rounds the fraction up
writeFixed15_16_Ceil(data, value) ==
    LET whole    == Floor(value)
        fraction == FloorFrac65536(value) + 1
    IN  writeU16(writeU16(data, whole), fraction)

writeFixed15_16(data, value) ==
    LET whole    == Floor(value)
        fraction == FloorFrac65536(value)
    IN  writeU16(writeU16(data, whole), fraction)

writeXYZ(data, x, y, z) ==
    writeFixed15_16(writeFixed15_16(writeFixed15_16(data, x), y), z)

\* new Uint8Array(this.data): every element is reduced modulo 256
getBuffer(data) == [i \in 1..Len(data) |-> data[i] % 256]

\* for (let i = 0; i < k; i++) writer.writeU8(0)
writeZeros(data, k) == data \o [i \in 1..k |-> 0]

(***************************************************************************)
(* Literals of the encoder.                                                *)
(***************************************************************************)
sRGB_Matrix ==
    [ red   |-> [x |-> Rat(436066, 1000000), y |-> Rat(222488, 1000000), z |-> Rat(13916, 1000000)],
      green |-> [x |-> Rat(385147, 1000000), y |-> Rat(716873, 1000000), z |-> Rat(97076, 1000000)],
      blue  |-> [x |-> Rat(143066, 1000000), y |-> Rat(60608, 1000000),  z |-> Rat(714096, 1000000)] ]

D50 == [x |-> Rat(9642, 10000), y |-> Rat(10000, 10000), z |-> Rat(8249, 10000)]

Sig_desc == <<100, 101, 115, 99>>
Sig_text == <<116, 101, 120, 116>>
Sig_XYZ  == <<88, 89, 90, 32>>
Sig_curv == <<99, 117, 114, 118>>
Sig_lcms == <<108, 99, 109, 115>>
Sig_mntr == <<109, 110, 116, 114>>
Sig_RGB  == <<82, 71, 66, 32>>
Sig_acsp == <<97, 99, 115, 112>>
Sig_MSFT == <<77, 83, 70, 84>>
Sig_ZAP  == <<90, 65, 80, 32>>
Sig_cprt == <<99, 112, 114, 116>>
Sig_wtpt == <<119, 116, 112, 116>>
Sig_rXYZ == <<114, 88, 89, 90>>
Sig_gXYZ == <<103, 88, 89, 90>>
Sig_bXYZ == <<98, 88, 89, 90>>
Sig_rTRC == <<114, 84, 82, 67>>
Sig_gTRC == <<103, 84, 82, 67>>
Sig_bTRC == <<98, 84, 82, 67>>

\* "Copyright ZAP AI 2024"
CopyrightStr == <<67, 111, 112, 121, 114, 105, 103, 104, 116, 32, 90, 65, 80,
                  32, 65, 73, 32, 50, 48, 50, 52>>

\* "ChromaCal Profile"
DefaultDescStr == <<67, 104, 114, 111, 109, 97, 67, 97, 108, 32, 80, 114, 111,
                    102, 105, 108, 101>>

(***************************************************************************)
(* generateICCProfileBlob, step 1: the tag data blocks (calib is the     *)
(* function's result parameter).                                         *)
(***************************************************************************)
descData(calib) ==
    LET descStr == IF Len(calib.profileName) > 0 THEN calib.profileName
                   ELSE DefaultDescStr
        w1 == writeU32(writeTagSig(<<>>, Sig_desc), 0)
        w2 == writeU32(w1, Len(descStr) + 1)
        w3 == writeU8(writeString(w2, descStr), 0)
    IN  getBuffer(writeZeros(w3, 64))

cprtData ==
    getBuffer(writeU8(writeString(writeU32(writeTagSig(<<>>, Sig_text), 0),
                                  CopyrightStr), 0))

wtptData ==
    getBuffer(writeXYZ(writeU32(writeTagSig(<<>>, Sig_XYZ), 0), D50.x, D50.y, D50.z))

\* one of rXYZ, gXYZ, bXYZ: the matrix row scaled by the channel's gain
primaryData(row, gain) ==
    getBuffer(writeXYZ(writeU32(writeTagSig(<<>>, Sig_XYZ), 0),
                       RatMul(row.x, gain), RatMul(row.y, gain), RatMul(row.z, gain)))

\* a curve value that is cut off instead of rounded
trcData_Floor(calib) ==
    LET gammaVal == Floor(RatMul(calib.gamma, Rat(256, 1)))
    IN  getBuffer(writeU16(writeU32(writeU32(writeTagSig(<<>>, Sig_curv), 0), 1),
                           gammaVal))

trcData(calib) ==
    LET gammaVal == Round(RatMul(calib.gamma, Rat(256, 1)))
    IN  getBuffer(writeU16(writeU32(writeU32(writeTagSig(<<>>, Sig_curv), 0), 1),
                           gammaVal))

\* a tags array whose primaries all use the red gain
tags_RedGainOnly(calib) ==
    << [sig |-> Sig_desc, data |-> descData(calib)],
       [sig |-> Sig_cprt, data |-> cprtData],
       [sig |-> Sig_wtpt, data |-> wtptData],
       [sig |-> Sig_rXYZ, data |-> primaryData(sRGB_Matrix.red, calib.redGain)],
       [sig |-> Sig_gXYZ, data |-> primaryData(sRGB_Matrix.green, calib.redGain)],
       [sig |-> Sig_bXYZ, data |-> primaryData(sRGB_Matrix.blue, calib.redGain)],
       [sig |-> Sig_rTRC, data |-> trcData(calib)],
       [sig |-> Sig_gTRC, data |-> trcData(calib)],
       [sig |-> Sig_bTRC, data |-> trcData(calib)] >>

\* the tags array
tags(calib) ==
    << [sig |-> Sig_desc, data |-> descData(calib)],
       [sig |-> Sig_cprt, data |-> cprtData],
       [sig |-> Sig_wtpt, data |-> wtptData],
       [sig |-> Sig_rXYZ, data |-> primaryData(sRGB_Matrix.red, calib.redGain)],
       [sig |-> Sig_gXYZ, data |-> primaryData(sRGB_Matrix.green, calib.greenGain)],
       [sig |-> Sig_bXYZ, data |-> primaryData(sRGB_Matrix.blue, calib.blueGain)],
       [sig |-> Sig_rTRC, data |-> trcData(calib)],
       [sig |-> Sig_gTRC, data |-> trcData(calib)],
       [sig |-> Sig_bTRC, data |-> trcData(calib)] >>

(***************************************************************************)
(* Step 2: the 128-byte header; clock is <<year, month, day, hours,      *)
(* minutes, seconds>> as getFullYear(), getMonth() + 1, ... return them.   *)
(***************************************************************************)
\* the header's fields up to the creator signature (bytes 0 to 83)
headerFields(clock) ==
    LET h1 == writeU32(<<>>, 0)
        h2 == writeTagSig(h1, Sig_lcms)
        h3 == writeU32(h2, 34603008)          \* 0x02100000
        h4 == writeTagSig(writeTagSig(writeTagSig(h3, Sig_mntr), Sig_RGB), Sig_XYZ)
        h5 == writeU16(writeU16(writeU16(writeU16(writeU16(writeU16(h4,
                  clock[1]), clock[2]), clock[3]), clock[4]), clock[5]), clock[6])
        h6 == writeTagSig(writeTagSig(h5, Sig_acsp), Sig_MSFT)
        h7 == writeU32(writeTagSig(writeU32(h6, 0), Sig_ZAP), 0)
        h8 == writeU32(writeU32(writeU32(h7, 0), 0), 0)
    IN  writeTagSig(writeXYZ(h8, D50.x, D50.y, D50.z), Sig_ZAP)

\* a header that also stamps the seconds into its last reserved bytes
writeHeader_StampReserved(clock) ==
    writeU16(writeZeros(headerFields(clock), 42), clock[6])

writeHeader(clock) == writeZeros(headerFields(clock), 44)

\* mutant of AlignUp4: the table pass forgets to align the next offset
AlignUp4_NoAlign(currentOffset) == currentOffset

\* while (currentOffset % 4 !== 0) currentOffset++
AlignUp4(currentOffset) ==
    IF currentOffset % 4 = 0 THEN currentOffset
    ELSE currentOffset + (4 - (currentOffset % 4))

\* the first forEach: entries i..Len(tagList) of the tag table
RECURSIVE writeTableEntries(_, _, _, _)
writeTableEntries(data, tagList, i, currentOffset) ==
    IF i > Len(tagList) THEN data
    ELSE LET tag == tagList[i]
             e   == writeU32(writeU32(writeTagSig(data, tag.sig), currentOffset),
                             Len(tag.data))
         IN  writeTableEntries(e, tagList, i + 1,
                               AlignUp4(currentOffset + Len(tag.data)))

\* mutant of writePadding: the data pass writes no padding
writePadding_None(data, len) == data

\* while (len % 4 !== 0) { main.writeU8(0); len++ }: the loop writes one
\* zero for each step from len up to the next multiple of 4
writePadding(data, len) == writeZeros(data, (4 - (len % 4)) % 4)

\* for (let i = 0; i < buffer.length; i++) main.writeU8(buffer[i])
writeBytes(data, buffer) == data \o [i \in 1..Len(buffer) |-> buffer[i] % 256]

\* the second forEach: the data of tags i..Len(tagList), each padded
RECURSIVE writeTagData(_, _, _)
writeTagData(data, tagList, i) ==
    IF i > Len(tagList) THEN data
    ELSE LET buffer == tagList[i].data
         IN  writeTagData(writePadding(writeBytes(data, buffer), Len(buffer)),
                          tagList, i + 1)

\* mutant of patchSize: the placeholder written first is never patched
patchSize_Unpatched(finalBuffer) == finalBuffer

\* view.setUint32(0, totalSize, false)
patchSize(finalBuffer) ==
    LET totalSize == Len(finalBuffer)
        be == writeU32(<<>>, totalSize)
    IN  [i \in 1..Len(finalBuffer) |-> IF i <= 4 THEN be[i] ELSE finalBuffer[i]]

generateICCProfileBlob(calib, clock) ==
    LET tagList == tags(calib)
        main1 == writeU32(writeHeader(clock), Len(tagList))
        main2 == writeTableEntries(main1, tagList, 1, 128 + (4 + 12 * Len(tagList)))
        main3 == writeTagData(main2, tagList, 1)
    IN  patchSize(getBuffer(main3))

(***************************************************************************)
(* The encoder's inputs.                                                   *)
(***************************************************************************)
\* code units a profile name is drawn from: 'A', 'e' with acute, the euro sign
NameChars == <<65, 233, 8364>>

\* the names of length len: the code units cycle through NameChars from start
NameOf(len, start) == [i \in 1..len |-> NameChars[((start + i) % 3) + 1]]

ProfileNames == {NameOf(len, start) : len \in 0..MaxNameLen, start \in 0..2}

Gains == {Rat(k, GainDen) : k \in {0, GainDen - 1, GainDen, 2 * GainDen}}

\* 1.8, 2.2, 2.4 (for GammaDen = 10) and 256, the first gamma whose
\* round(gamma * 256) does not fit 16 bits
Gammas ==
    {Rat(k, GammaDen) : k \in {2 * GammaDen - 2, 2 * GammaDen + 2,
                               2 * GammaDen + 4, 256 * GammaDen}}

Clocks == { <<2024, 1, 1, 0, 0, 0>>, <<2026, 11, 5, 23, 59, 59>> }

EncoderInputs ==
    [profileName : ProfileNames, gamma : Gammas,
     redGain : Gains, greenGain : Gains, blueGain : Gains]

\* no second result has been chosen
NoOther == [changed |-> "none"]

\* the gain of each primary tag and the row of sRGB_Matrix it scales
GainChannels ==
    { [gain |-> "redGain",   sig |-> Sig_rXYZ, row |-> sRGB_Matrix.red],
      [gain |-> "greenGain", sig |-> Sig_gXYZ, row |-> sRGB_Matrix.green],
      [gain |-> "blueGain",  sig |-> Sig_bXYZ, row |-> sRGB_Matrix.blue] }

\* the results of SpecPair: the empty and the longest names
PairInputs == {r \in EncoderInputs : Len(r.profileName) \in {0, MaxNameLen}}

\* the encoder's variables while another subsystem is being checked
ICCIdle ==
    /\ encResult = [profileName |-> <<>>, gamma |-> Rat(2 * GammaDen, GammaDen),
                    redGain |-> Rat(GainDen, GainDen),
                    greenGain |-> Rat(GainDen, GainDen),
                    blueGain |-> Rat(GainDen, GainDen)]
    /\ now = <<2024, 1, 1, 0, 0, 0>>
    /\ blob = <<>>
    /\ encOther = NoOther
    /\ blobOther = <<>>

(***************************************************************************)
(* The sensor session (src/components/SensorMode.tsx): values.             *)
(***************************************************************************)
RGB(r, g, b) == [r |-> r, g |-> g, b |-> b]

\* null, where the code holds an RGB or null
NoRGB == RGB(-1, -1, -1)

Grey(v) == RGB(v, v, v)

sampleSize == 50

\* data.length / 4 for the sampleSize x sampleSize patch
pixelCount == sampleSize * sampleSize

\* A frame is described by what the centre patch shows: na pixels of colour
\* a and the other pixelCount - na pixels of colour b.
Uniform(c) == [a |-> c, b |-> c, na |-> pixelCount]

TwoTone(c1, c2) == [a |-> c1, b |-> c2, na |-> pixelCount \div 2]

\* readyState below HAVE_ENOUGH_DATA: the <video> has no picture yet
NoFrame == [a |-> NoRGB, b |-> NoRGB, na |-> 0]

\* Math.round(sum / pixelCount) of one channel of the patch
channelMean(f, ch) ==
    Round(Rat(f.na * f.a[ch] + (pixelCount - f.na) * f.b[ch], pixelCount))

\* a sample that reads the pixel bytes in the order blue, green, red
newRGB_BGR(f) ==
    RGB(channelMean(f, "b"), channelMean(f, "g"), channelMean(f, "r"))

\* newRGB of processFrame
newRGB(f) ==
    RGB(channelMean(f, "r"), channelMean(f, "g"), channelMean(f, "b"))

Min2(x, y) == IF x < y THEN x ELSE y

Max2(x, y) == IF x > y THEN x ELSE y

RECURSIVE channelMin(_, _, _, _)
\* the loop's minR, minG, minB: acc starts at 255
channelMin(h, i, ch, acc) ==
    IF i > Len(h) THEN acc ELSE channelMin(h, i + 1, ch, Min2(acc, h[i][ch]))

RECURSIVE channelMax(_, _, _, _)
\* the loop's maxR, maxG, maxB: acc starts at 0
channelMax(h, i, ch, acc) ==
    IF i > Len(h) THEN acc ELSE channelMax(h, i + 1, ch, Max2(acc, h[i][ch]))

variance(h) ==
    LET dR == channelMax(h, 1, "r", 0) - channelMin(h, 1, "r", 255)
        dG == channelMax(h, 1, "g", 0) - channelMin(h, 1, "g", 255)
        dB == channelMax(h, 1, "b", 0) - channelMin(h, 1, "b", 255)
    IN  Max2(dR, Max2(dG, dB))

HistoryCap == 10

MinSamples == 5

Threshold == 6

\* a changed comparison: variance <= Threshold
stabilityOf_Inclusive(h) ==
    IF Len(h) >= MinSamples THEN variance(h) <= Threshold ELSE FALSE

\* the value handed to setIsStable
stabilityOf(h) ==
    IF Len(h) >= MinSamples THEN variance(h) < Threshold ELSE FALSE

\* a changed eviction: pop() for shift(), which drops the newest sample
pushSample_DropNewest(hist, s) ==
    LET h1 == Append(hist, s)
    IN  IF Len(h1) > HistoryCap THEN SubSeq(h1, 1, Len(h1) - 1) ELSE h1

\* history.push(newRGB); if (history.length > 10) history.shift()
pushSample(hist, s) ==
    LET h1 == Append(hist, s)
    IN  IF Len(h1) > HistoryCap THEN Tail(h1) ELSE h1

\* One run of processFrame's sampling branch on st = the sample state.
sampleOnce(st, s) ==
    LET h == pushSample(st.history, s)
    IN  [measuredRGB |-> s, history |-> h, isStable |-> stabilityOf(h),
         emitted |-> Append(st.emitted, s)]

RECURSIVE runCallbacks(_, _, _)
\* k processFrame callbacks run in one animation frame, one after another
runCallbacks(k, st, s) ==
    IF k = 0 THEN st ELSE runCallbacks(k - 1, sampleOnce(st, s), s)

\* the effect's pending requestAnimationFrame handle
NoHandle == [armed |-> FALSE, frozen |-> FALSE]

Handle(frozen) == [armed |-> TRUE, frozen |-> frozen]

\* The stream that the mount effect's cleanup sees.  The effect has no
\* dependencies, so its cleanup calls the first render's stopCamera, whose
\* stream is useState's initial value.
mountClosureStream == "none"

\* stopCamera: whether it stops the tracks, given the stream it sees
stopCameraStops(seen) == seen # "none"

\* the catch branch of handleLockExposure that stays in SETUP
lockCatch_Stay(st) == st

\* the catch branch of handleLockExposure
lockCatch(st) == [st EXCEPT !.calibrationStage = "MEASURING"]

\* the branch after applyConstraints resolved
lockApplied(st) ==
    [st EXCEPT !.isHardwareLocked = TRUE, !.calibrationStage = "MEASURING"]

\* the branch without any manual capability
lockUnsupported(st) ==
    [st EXCEPT !.isHardwareLocked = FALSE, !.calibrationStage = "MEASURING"]

Modes == {"exposureMode", "whiteBalanceMode", "focusMode"}

\* the modes startCamera asks getUserMedia for
requestedModes == [m \in Modes |-> "continuous"]

\* advancedConstraints: 'manual' for each mode whose capability includes it
advancedConstraints(dev) == [m \in dev.manual |-> "manual"]

\* hasAdvanced
hasAdvanced(dev) == dev.manual # {}

\* the track after applyConstraints({advanced: [constraints]}) resolved
applyConstraints(modes, constraints) ==
    [m \in Modes |-> IF m \in DOMAIN constraints THEN constraints[m]
                     ELSE modes[m]]

NoLock == [flip |-> FALSE, white |-> NoRGB, outcome |-> "none"]

\* no tap-to-focus applyConstraints has settled
NoFocus == [flip |-> FALSE, step |-> "none", outcome |-> "none",
            issuedIn |-> "SETUP", settledIn |-> "SETUP"]

\* the constraints of handleTapToFocus, for the first call and the fallback
focusConstraints == [focusMode |-> "continuous"]

(***************************************************************************)
(* Cameras and scenes.                                                     *)
(***************************************************************************)
\* manual: the modes whose capabilities include 'manual';
\* queryThrows: getCapabilities() or getSettings() throws
Device(manual, queryThrows) == [manual |-> manual, queryThrows |-> queryThrows]

PlainDevice == Device({}, FALSE)

Devices ==
    { PlainDevice,
      Device({"exposureMode"}, FALSE),
      Device({"exposureMode", "whiteBalanceMode", "focusMode"}, FALSE),
      Device({}, TRUE) }

\* a scene is the picture first shown and the picture it can change to
Scenes ==
    { <<Uniform(Grey(100)), TwoTone(Grey(104), Grey(105))>>,
      <<Uniform(Grey(100)), Uniform(RGB(100, 100, 106))>> }

SessionScenes == { <<Uniform(Grey(100)), Uniform(RGB(110, 100, 100))>> }

\* scenes whose pictures all have a uniform centre patch
UniformScenes ==
    { <<Uniform(RGB(120, 200, 40)), Uniform(RGB(0, 0, 0))>>,
      <<Uniform(RGB(255, 255, 255)), Uniform(RGB(1, 254, 127))>> }

\* SensorMode is not on screen
SensorIdle ==
    /\ mounted = FALSE
    /\ camera = "idle"
    /\ tracksLive = FALSE
    /\ stream = "none"
    /\ srcObject = FALSE
    /\ error = FALSE
    /\ device = PlainDevice
    /\ scene = <<Uniform(Grey(100)), Uniform(Grey(104))>>
    /\ frame = NoFrame
    /\ frameChanges = 0
    /\ paused = FALSE
    /\ measuredRGB = RGB(0, 0, 0)
    /\ isFrozen = FALSE
    /\ isStable = FALSE
    /\ history = <<>>
    /\ calibrationStage = "SETUP"
    /\ isHardwareLocked = FALSE
    /\ referenceWhite = NoRGB
    /\ effectHandle = NoHandle
    /\ loops = 0
    /\ lockCalls = <<>>
    /\ trackModes = requestedModes
    /\ emitted = <<>>
    /\ lastLockWhite = NoRGB
    /\ lockSettled = NoLock
    /\ focusPoint = FALSE
    /\ focusCalls = <<>>
    /\ focusSettled = NoFocus

(***************************************************************************)
(* JavaScript values of the analysis call.  Every value is a record with   *)
(* a type field, so that any two of them can be compared.                *)
(***************************************************************************)
JsNull == [type |-> "null"]

JsUndefined == [type |-> "undefined"]

JsNumber(v) == [type |-> "number", v |-> v]

RatEq(a, b) == a.n * b.d = b.n * a.d

\* a string is a sequence of one-character strings
Digits == {"0", "1", "2", "3", "4", "5", "6", "7", "8", "9"}

DigitValue(c) ==
    CASE c = "0" -> 0 [] c = "1" -> 1 [] c = "2" -> 2 [] c = "3" -> 3
      [] c = "4" -> 4 [] c = "5" -> 5 [] c = "6" -> 6 [] c = "7" -> 7
      [] c = "8" -> 8 [] c = "9" -> 9

\* the index after the longest run of digits of str that starts at index i
RECURSIVE DigitsEnd(_, _)
DigitsEnd(str, i) ==
    IF i <= Len(str) /\ str[i] \in Digits THEN DigitsEnd(str, i + 1) ELSE i

\* the number written by the digits str[i..j-1], and 10 to their count
RECURSIVE DigitsValue(_, _, _)
DigitsValue(str, i, j) ==
    IF i >= j THEN 0
    ELSE DigitsValue(str, i, j - 1) * 10 + DigitValue(str[j - 1])

RECURSIVE Pow10(_)
Pow10(k) == IF k = 0 THEN 1 ELSE 10 * Pow10(k - 1)

\* parseFloat on an unsigned decimal literal: the longest prefix of the form
\* digits [ "." digits ]; NaN when that prefix holds no digit
parseFloat(str) ==
    LET e1 == DigitsEnd(str, 1)
        hasDot == e1 <= Len(str) /\ str[e1] = "."
        e2 == IF hasDot THEN DigitsEnd(str, e1 + 1) ELSE e1
        nInt == e1 - 1
        nFrac == IF hasDot THEN e2 - (e1 + 1) ELSE 0
    IN  IF nInt + nFrac = 0
        THEN [nan |-> TRUE, v |-> Rat(0, 1)]
        ELSE [nan |-> FALSE,
              v |-> Rat(DigitsValue(str, 1, e1) * Pow10(nFrac)
                          + (IF hasDot THEN DigitsValue(str, e1 + 1, e2) ELSE 0),
                        Pow10(nFrac))]

\* parseFloat(x) || 2.2, where NaN and 0 are falsy
ParseFloatOr(str, dflt) ==
    LET p == parseFloat(str)
    IN  IF p.nan \/ p.v.n = 0 THEN dflt ELSE p.v

(***************************************************************************)
(* The pattern wizard (PatternGenerator, src/unnamed/part_006) and the App *)
(* that hosts it (src/unnamed/part_000): values.                           *)
(***************************************************************************)
\* a MeasurementPoint; measuredColor is NoRGB while the field is absent
Point(label, targetColor) ==
    [label |-> label, targetColor |-> targetColor, measuredColor |-> NoRGB]

TARGET_POINTS ==
    << Point("Reference White (Lock Exposure)", RGB(255, 255, 255)),
       Point("Red Reference", RGB(255, 0, 0)),
       Point("Green Reference", RGB(0, 255, 0)),
       Point("Blue Reference", RGB(0, 0, 255)),
       Point("Black Point", RGB(0, 0, 0)),
       Point("50% Gray", RGB(128, 128, 128)) >>

\* the target lists drawn: the first target alone, and the whole list
PointLists == { SubSeq(TARGET_POINTS, 1, 1), TARGET_POINTS }

\* An array value: its elements, and whether it is the TARGET_POINTS array
\* object itself, so that a write to it is a write to the shared list.
ArrayRef(items, shared) == [items |-> items, shared |-> shared]

\* [...arr] without the copy
spread_Alias(arr) == arr

\* [...arr]: a new array with the same elements
spread(arr) == ArrayRef(arr.items, FALSE)

\* no PatternGenerator is mounted
NoArray == ArrayRef(<<>>, FALSE)

\* what the user can type into the three number inputs
ManualInputs ==
    [ r |-> { <<>>, <<"0">>, <<"1", "2", ".", "7">> },
      g |-> { <<>>, <<"3", "0", "0">> },
      b |-> { <<>> } ]

\* parseInt(str): an optional sign and the longest run of digits after it;
\* NaN when there is no digit
parseInt(str) ==
    LET signed == Len(str) > 0 /\ str[1] \in {"-", "+"}
        start  == IF signed THEN 2 ELSE 1
        end    == DigitsEnd(str, start)
        value  == DigitsValue(str, start, end)
    IN  IF end = start THEN [nan |-> TRUE, v |-> 0]
        ELSE [nan |-> FALSE,
              v |-> IF signed /\ str[1] = "-" THEN 0 - value ELSE value]

\* parseInt(x) || dflt, where NaN and 0 are falsy
ParseIntOr(str, dflt) ==
    LET p == parseInt(str)
    IN  IF p.nan \/ p.v = 0 THEN dflt ELSE p.v

\* the wizard's and the App's variables while another subsystem is checked
PatternIdle ==
    /\ mode = "LANDING"
    /\ points = TARGET_POINTS
    /\ appMeasurements = TARGET_POINTS
    /\ measurements = NoArray
    /\ currentIndex = 0
    /\ manualR = <<>> /\ manualG = <<>> /\ manualB = <<>>
    /\ isUIVisible = TRUE

(***************************************************************************)
(* The oracle's response text is a sequence of lexical pieces: the code    *)
(* fences (three backquotes, with or without the word json), white space,  *)
(* text that is no JSON, and complete JSON values.                         *)
(***************************************************************************)
FenceJson == [piece |-> "fence json"]

Fence == [piece |-> "fence"]

WS == [piece |-> "whitespace"]

Garbage == [piece |-> "not json"]

Json(v) == [piece |-> "json", value |-> v]

\* the two replace calls that delete every code fence
RECURSIVE StripFences(_)
StripFences(text) ==
    IF text = <<>> THEN <<>>
    ELSE IF Head(text).piece \in {"fence json", "fence"} THEN StripFences(Tail(text))
    ELSE <<Head(text)>> \o StripFences(Tail(text))

RECURSIVE TrimLeft(_)
TrimLeft(text) ==
    IF text # <<>> /\ Head(text).piece = "whitespace" THEN TrimLeft(Tail(text))
    ELSE text

RECURSIVE TrimRight(_)
TrimRight(text) ==
    IF text # <<>> /\ text[Len(text)].piece = "whitespace"
    THEN TrimRight(SubSeq(text, 1, Len(text) - 1))
    ELSE text

\* String.prototype.trim
Trim(text) == TrimRight(TrimLeft(text))

\* JSON.parse: white space around one complete value is accepted, anything
\* else is a SyntaxError
JSON_parse(text) ==
    LET t == Trim(text)
    IN  IF Len(t) = 1 /\ t[1].piece = "json"
        THEN [throws |-> FALSE, value |-> t[1].value]
        ELSE [throws |-> TRUE, value |-> JsUndefined]

(***************************************************************************)
(* analyzeCalibration.                                                     *)
(***************************************************************************)
OfflineName == "Basic Profile (Offline Mode)"

fallbackResult(sett) ==
    [type |-> "object",
     profileName |-> OfflineName,
     gamma |-> ParseFloatOr(sett.targetGamma, Rat(22, 10)),
     colorTemperature |-> "Uncalibrated",
     deltaE |-> Rat(0, 1),
     redGain |-> Rat(1, 1),
     greenGain |-> Rat(1, 1),
     blueGain |-> Rat(1, 1),
     contrastRatio |-> "N/A",
     feedback |-> "fallback"]

Return(v) == [kind |-> "return", value |-> v]

Throw == [kind |-> "throw", value |-> JsUndefined]

\* the body of the try block; outcome is what ai.models.generateContent
\* does: it throws, or it resolves with a response whose text is text
\* (JsUndefined when the response carries no text)
tryBlock(sett, key, outcome) ==
    IF ~key THEN Return(fallbackResult(sett))
    ELSE IF outcome.kind = "throw" THEN Throw
    ELSE IF outcome.text # JsUndefined /\ outcome.text.chars # <<>>
    THEN LET cleanedText == Trim(StripFences(outcome.text.chars))
             parsed == JSON_parse(cleanedText)
         IN  IF parsed.throws THEN Throw ELSE Return(parsed.value)
    ELSE Throw   \* "Gemini API returned empty response"

\* mutant of catchBlock: the error is logged and thrown again
catchBlock_Rethrow(sett) == [settled |-> "rejected", value |-> JsUndefined]

\* catch (error) { console.error(...); return fallbackResult }
catchBlock(sett) == [settled |-> "resolved", value |-> fallbackResult(sett)]

\* the promise analyzeCalibration returns, once settled
analyzeCalibration(sett, key, outcome) ==
    LET r == tryBlock(sett, key, outcome)
    IN  IF r.kind = "throw" THEN catchBlock(sett)
        ELSE [settled |-> "resolved", value |-> r.value]

(***************************************************************************)
(* Inputs of the Report.                                                   *)
(***************************************************************************)
\* the <option> values of the Target Gamma select
GammaOptions == { <<"1", ".", "8">>, <<"2", ".", "0">>, <<"2", ".", "2">>,
                  <<"2", ".", "4">> }

\* two of the white points a user can choose
WhitePoints == {"D65 (6500K)", "D50 (5000K)"}

SettingsValues == [targetGamma : GammaOptions, targetWhitePoint : WhitePoints]

DEFAULT_SETTINGS == [targetGamma |-> <<"2", ".", "2">>, targetWhitePoint |-> "D65 (6500K)"]

\* objects an oracle may answer with: a result within the documented ranges,
\* one with a gain outside [0,2] and a gamma of 0, and an object without the
\* result's fields
OracleObjects ==
    { [type |-> "object", profileName |-> "Calibrated", gamma |-> Rat(21, 10),
       colorTemperature |-> "6200K", deltaE |-> Rat(3, 2),
       redGain |-> Rat(9, 10), greenGain |-> Rat(1, 1), blueGain |-> Rat(11, 10),
       contrastRatio |-> "1000:1", feedback |-> "analysis"],
      [type |-> "object", profileName |-> "", gamma |-> Rat(0, 1),
       colorTemperature |-> "6200K", deltaE |-> Rat(3, 2),
       redGain |-> Rat(5, 2), greenGain |-> Rat(1, 1), blueGain |-> Rat(1, 1),
       contrastRatio |-> "1000:1", feedback |-> "analysis"],
      [type |-> "object"] }

JsonValues == OracleObjects \cup {JsNull, JsNumber(Rat(42, 1))}

Text(chars) == [type |-> "string", chars |-> chars]

\* a well-formed answer of the oracle
GoodObject == CHOOSE o \in OracleObjects : o.type = "object" /\ o # [type |-> "object"]
                                           /\ o.profileName = "Calibrated"

ResponseTexts ==
    {JsUndefined, Text(<<>>), Text(<<WS>>), Text(<<Garbage>>), Text(<<Fence>>)}
      \cup {Text(<<Json(v)>>) : v \in JsonValues}
      \cup {Text(<<FenceJson, WS, Json(GoodObject), WS, Fence>>),
            Text(<<Json(GoodObject), Garbage>>)}

OracleOutcomes ==
    {[kind |-> "throw", text |-> JsUndefined]}
      \cup {[kind |-> "response", text |-> t] : t \in ResponseTexts}

NoCall == [req |-> 0]

\* the Report's variables while another subsystem is being checked
ReportIdle ==
    /\ apiKey = TRUE
    /\ settings = DEFAULT_SETTINGS
    /\ result = JsNull
    /\ loading = TRUE
    /\ pending = {}
    /\ nextReq = 0
    /\ lastCall = NoCall

(***************************************************************************)
(* The Report component.                                                   *)
(***************************************************************************)
\* useState(null), useState(true); App's useState(DEFAULT_SETTINGS) and the
\* settings saved before the Report opens
InitReport ==
    /\ apiKey \in BOOLEAN
    /\ settings \in SettingsValues
    /\ result = JsNull
    /\ loading = TRUE
    /\ pending = {}
    /\ nextReq = 0
    /\ lastCall = NoCall
    /\ ICCIdle
    /\ SensorIdle
    /\ PatternIdle

\* the effect's fetchAnalysis up to its await: setLoading(true) and the call
StartFetch(sett) ==
    /\ nextReq < MaxRequests
    /\ loading' = TRUE
    /\ nextReq' = nextReq + 1
    /\ pending' = pending \cup {[req |-> nextReq + 1, settings |-> sett]}

\* the effect of the first render
fetchAnalysis ==
    /\ nextReq = 0
    /\ StartFetch(settings)
    /\ UNCHANGED <<apiKey, settings, result, lastCall, iccVars, sensorVars, patternVars>>

\* onUpdateSettings / SettingsModal's onSave with changed settings: App's
\* setSettings, the re-render and the effect's next run
UpdateSettings ==
    \E sett \in SettingsValues :
        /\ nextReq > 0
        /\ sett # settings
        /\ settings' = sett
        /\ StartFetch(sett)
        /\ UNCHANGED <<apiKey, result, lastCall, iccVars, sensorVars, patternVars>>

\* fetchAnalysis after its await: the call of request p settles
SettleAnalysis ==
    \E p \in pending, outcome \in OracleOutcomes :
        LET ret == analyzeCalibration(p.settings, apiKey, outcome)
        IN  /\ pending' = pending \ {p}
            /\ result' = IF ret.settled = "resolved" THEN ret.value ELSE result
            /\ loading' = FALSE
            /\ lastCall' = [req |-> p.req, settings |-> p.settings,
                            key |-> apiKey, outcome |-> outcome, ret |-> ret]
            /\ UNCHANGED <<apiKey, settings, nextReq, iccVars, sensorVars, patternVars>>

NextReport == fetchAnalysis \/ UpdateSettings \/ SettleAnalysis

SpecReport == InitReport /\ [][NextReport]_vars

(***************************************************************************)
(* The Report's download action.                                           *)
(***************************************************************************)
\* the UTF-16 code units of the profile names that occur
CodeUnits(name) ==
    CASE name = "" -> <<>>
      [] name = "Calibrated" ->
        << 67, 97, 108, 105, 98, 114, 97, 116, 101, 100 >>
      [] name = OfflineName ->
        << 66, 97, 115, 105, 99, 32, 80, 114, 111, 102, 105, 108, 101, 32,
           40, 79, 102, 102, 108, 105, 110, 101, 32, 77, 111, 100, 101,
           41 >>

\* an object that has the fields the encoder reads
HasResultFields(v) ==
    v.type = "object" /\ {"profileName", "gamma", "redGain", "greenGain", "blueGain"}
                           \subseteq DOMAIN v

\* the fields of the Report's result that the encoder reads
encoderView(v) ==
    [profileName |-> CodeUnits(v.profileName), gamma |-> v.gamma,
     redGain |-> v.redGain, greenGain |-> v.greenGain, blueGain |-> v.blueGain]

InitDownload ==
    /\ apiKey \in BOOLEAN
    /\ settings = DEFAULT_SETTINGS
    /\ result = JsNull
    /\ loading = TRUE
    /\ pending = {}
    /\ nextReq = 0
    /\ lastCall = NoCall
    /\ ICCIdle
    /\ SensorIdle
    /\ PatternIdle

\* handleDownload: the Download ICC button is rendered once loading has ended
\* with a result; the result state is passed to the encoder as it is.  For
\* a result without a profileName the encoder throws at its first read and
\* no encoding is made.
handleDownload ==
    /\ nextReq > 0 /\ ~loading
    /\ result # JsNull
    /\ HasResultFields(result)
    /\ encResult' = encoderView(result)
    /\ blob' = generateICCProfileBlob(encoderView(result), now)
    /\ UNCHANGED <<now, encOther, blobOther, reportVars, sensorVars, patternVars>>

NextDownload == fetchAnalysis \/ UpdateSettings \/ SettleAnalysis \/ handleDownload

SpecDownload == InitDownload /\ [][NextDownload]_vars

(***************************************************************************)
(* The encoder's specification.                                            *)
(***************************************************************************)
InitICC ==
    /\ encResult \in EncoderInputs
    /\ now \in Clocks
    /\ blob = <<>>
    /\ encOther = NoOther
    /\ blobOther = <<>>
    /\ ReportIdle
    /\ SensorIdle
    /\ PatternIdle

\* Report.handleDownload's call of the encoder
Encode ==
    /\ blob = <<>>
    /\ blob' = generateICCProfileBlob(encResult, now)
    /\ UNCHANGED <<encResult, now, encOther, blobOther, reportVars, sensorVars, patternVars>>

NextICC == Encode

SpecICC == InitICC /\ [][NextICC]_vars

(***************************************************************************)
(* Two calls of the encoder: a result, and the same result with one gain   *)
(* changed, encoded at the same clock time.                                *)
(***************************************************************************)
InitPair ==
    /\ encResult \in PairInputs
    /\ now = <<2024, 1, 1, 0, 0, 0>>
    /\ blob = <<>>
    /\ encOther = NoOther
    /\ blobOther = <<>>
    /\ ReportIdle
    /\ SensorIdle
    /\ PatternIdle

EncodeOther ==
    /\ blob # <<>>
    /\ blobOther = <<>>
    /\ \E c \in GainChannels, g \in Gains :
           LET calib == [encResult EXCEPT ![c.gain] = g]
           IN  /\ encOther' = [changed |-> c.gain, sig |-> c.sig, row |-> c.row,
                               calib |-> calib]
               /\ blobOther' = generateICCProfileBlob(calib, now)
    /\ UNCHANGED <<encResult, now, blob, reportVars, sensorVars, patternVars>>

NextPair == Encode \/ EncodeOther

SpecPair == InitPair /\ [][NextPair]_vars

(***************************************************************************)
(* Two calls of the encoder with the same result, the second at any clock  *)
(* time.                                                                   *)
(***************************************************************************)
InitTwice ==
    /\ encResult \in PairInputs
    /\ now \in Clocks
    /\ blob = <<>>
    /\ encOther = NoOther
    /\ blobOther = <<>>
    /\ ReportIdle
    /\ SensorIdle
    /\ PatternIdle

\* a second click on Download ICC: the same result, new Date() read again
EncodeAgain ==
    /\ blob # <<>>
    /\ blobOther = <<>>
    /\ \E clock \in Clocks :
           /\ encOther' = [changed |-> "clock", clock |-> clock, calib |-> encResult]
           /\ blobOther' = generateICCProfileBlob(encResult, clock)
    /\ UNCHANGED <<encResult, now, blob, reportVars, sensorVars, patternVars>>

NextTwice == Encode \/ EncodeAgain

SpecTwice == InitTwice /\ [][NextTwice]_vars

(***************************************************************************)
(* The sensor session: SensorMode from mount to unmount.                   *)
(***************************************************************************)
\* The state after the first render and its effects: startCamera is waiting
\* for getUserMedia and the effect has requested the first processFrame.
InitSensor(devices, scenes) ==
    /\ mounted = TRUE
    /\ camera = "pending"
    /\ tracksLive = FALSE
    /\ stream = "none"
    /\ srcObject = FALSE
    /\ error = FALSE
    /\ device \in devices
    /\ scene \in scenes
    /\ frame = NoFrame
    /\ frameChanges = 0
    /\ paused = FALSE
    /\ measuredRGB = RGB(0, 0, 0)
    /\ isFrozen = FALSE
    /\ isStable = FALSE
    /\ history = <<>>
    /\ calibrationStage = "SETUP"
    /\ isHardwareLocked = FALSE
    /\ referenceWhite = NoRGB
    /\ effectHandle = Handle(FALSE)
    /\ loops = 0
    /\ lockCalls = <<>>
    /\ trackModes = requestedModes
    /\ emitted = <<>>
    /\ lastLockWhite = NoRGB
    /\ lockSettled = NoLock
    /\ focusPoint = FALSE
    /\ focusCalls = <<>>
    /\ focusSettled = NoFocus
    /\ ICCIdle
    /\ ReportIdle
    /\ PatternIdle

\* the <video> and <canvas> are rendered: videoRef.current and
\* canvasRef.current are set
refsPresent == mounted /\ ~error

\* startCamera after getUserMedia resolved.  The state setters do nothing
\* once the component is unmounted.
CameraGranted ==
    /\ camera = "pending"
    /\ camera' = "granted"
    /\ tracksLive' = TRUE
    /\ stream' = IF mounted THEN "media" ELSE stream
    /\ srcObject' = IF refsPresent THEN TRUE ELSE srcObject
    /\ error' = IF mounted THEN FALSE ELSE error
    /\ UNCHANGED <<mounted, device, focusVars, videoVars, sampleVars, rafVars,
                   lockVars, iccVars, reportVars, patternVars>>

\* a catch block that shows nothing
startCameraCatch_Silent(isMounted, err) == err

\* setError in startCamera's catch block: the error message is shown
startCameraCatch(isMounted, err) == IF isMounted THEN TRUE ELSE err

\* startCamera after getUserMedia rejected
CameraDenied ==
    /\ camera = "pending"
    /\ camera' = "denied"
    /\ error' = startCameraCatch(mounted, error)
    /\ UNCHANGED <<mounted, tracksLive, stream, srcObject, device, focusVars,
                   videoVars, sampleVars, rafVars, lockVars, iccVars, reportVars,
                   patternVars>>

\* The playing <video> shows a new picture of the scene.
VideoFrame(maxChanges) ==
    /\ mounted /\ srcObject /\ tracksLive /\ ~paused
    /\ IF frame = NoFrame
       THEN frame' = scene[1] /\ UNCHANGED frameChanges
       ELSE /\ frameChanges < maxChanges
            /\ frame' = IF frame = scene[1] THEN scene[2] ELSE scene[1]
            /\ frameChanges' = frameChanges + 1
    /\ UNCHANGED <<scene, paused, cameraVars, sampleVars, rafVars, lockVars,
                   iccVars, reportVars, patternVars>>

\* a processFrame that requests the next callback only after it has sampled
rearm_OnlyWithFrame(f, live) == IF f = NoFrame THEN 0 ELSE live

\* requestAnimationFrame(processFrame) at the end of processFrame: each of
\* the live callbacks that ran requests itself again, with a frame f or none
rearm(f, live) == live

\* One animation frame: every requested processFrame callback runs.  A
\* callback that processFrame requested itself is the callback of the render
\* that created it, so its isFrozen is the value of that render; only such
\* callbacks with isFrozen = false request themselves again.
Tick(maxSamples) ==
    /\ effectHandle.armed \/ loops > 0
    /\ LET live == loops + (IF effectHandle.armed /\ ~effectHandle.frozen
                            THEN 1 ELSE 0)
           st == [measuredRGB |-> measuredRGB, history |-> history,
                  isStable |-> isStable, emitted |-> emitted]
           after == runCallbacks(live, st, newRGB(frame))
       IN  /\ effectHandle' = NoHandle
           /\ IF ~refsPresent
              THEN loops' = 0 /\ UNCHANGED sampleVars
              ELSE /\ loops' = rearm(frame, live)
                   /\ IF frame = NoFrame \/ live = 0
                      THEN UNCHANGED sampleVars
                      ELSE /\ Len(emitted) + live <= maxSamples
                           /\ measuredRGB' = after.measuredRGB
                           /\ history' = after.history
                           /\ isStable' = after.isStable
                           /\ emitted' = after.emitted
    /\ UNCHANGED <<isFrozen, cameraVars, videoVars, lockVars, iccVars,
                   reportVars, patternVars>>

\* toggleFreeze and the effects of the next render: the play/pause effect,
\* and the animation effect, whose cleanup cancels the handle it requested
\* and which requests the new processFrame.
toggleFreeze ==
    /\ mounted /\ calibrationStage = "MEASURING"
    /\ isFrozen => loops < MaxLoops
    /\ isFrozen' = ~isFrozen
    /\ effectHandle' = Handle(~isFrozen)
    /\ paused' = IF refsPresent /\ srcObject THEN ~isFrozen ELSE paused
    /\ UNCHANGED <<loops, scene, frame, frameChanges, cameraVars, sampleVars,
                   lockVars, iccVars, reportVars, patternVars>>

\* handleLockExposure up to its await (or to its end, when it does not await)
handleLockExposure(maxCalls) ==
    /\ mounted /\ ~error /\ calibrationStage = "SETUP"
    /\ IF stream = "none"
       THEN UNCHANGED lockVars
       ELSE LET st == [calibrationStage |-> calibrationStage,
                       isHardwareLocked |-> isHardwareLocked]
                done(after, outcome) ==
                    /\ calibrationStage' = after.calibrationStage
                    /\ isHardwareLocked' = after.isHardwareLocked
                    /\ lockSettled' = [flip |-> ~lockSettled.flip,
                                       white |-> measuredRGB,
                                       outcome |-> outcome]
                    /\ UNCHANGED lockCalls
            IN  /\ referenceWhite' = measuredRGB
                /\ lastLockWhite' = measuredRGB
                /\ UNCHANGED trackModes
                /\ IF device.queryThrows
                   THEN done(lockCatch(st), "threw")
                   ELSE IF ~hasAdvanced(device)
                   THEN done(lockUnsupported(st), "unsupported")
                   ELSE /\ Len(lockCalls) < maxCalls
                        /\ lockCalls' = Append(lockCalls, [white |-> measuredRGB])
                        /\ UNCHANGED <<calibrationStage, isHardwareLocked,
                                       lockSettled>>
    /\ UNCHANGED <<cameraVars, videoVars, sampleVars, rafVars, iccVars,
                   reportVars, patternVars>>

RemoveAt(s, i) == SubSeq(s, 1, i - 1) \o SubSeq(s, i + 1, Len(s))

\* applyConstraints of a waiting handleLockExposure call settles and the call
\* runs to its end.
LockSettle ==
    \E i \in DOMAIN lockCalls, outcome \in {"resolved", "rejected"} :
        LET st == [calibrationStage |-> calibrationStage,
                   isHardwareLocked |-> isHardwareLocked]
            after == IF ~mounted THEN st
                     ELSE IF outcome = "resolved" THEN lockApplied(st)
                     ELSE lockCatch(st)
        IN  /\ lockCalls' = RemoveAt(lockCalls, i)
            /\ trackModes' =
                   IF outcome = "resolved"
                   THEN applyConstraints(trackModes, advancedConstraints(device))
                   ELSE trackModes
            /\ calibrationStage' = after.calibrationStage
            /\ isHardwareLocked' = after.isHardwareLocked
            /\ lockSettled' = [flip |-> ~lockSettled.flip,
                               white |-> lockCalls[i].white,
                               outcome |-> outcome]
            /\ UNCHANGED <<referenceWhite, lastLockWhite, cameraVars, videoVars,
                           sampleVars, rafVars, iccVars, reportVars, patternVars>>

\* the Reset button of the measuring panel
Reset ==
    /\ mounted /\ calibrationStage = "MEASURING"
    /\ calibrationStage' = "SETUP"
    /\ UNCHANGED <<isHardwareLocked, referenceWhite, lockCalls, trackModes,
                   lastLockWhite, lockSettled, cameraVars, videoVars, sampleVars, rafVars,
                   iccVars, reportVars, patternVars>>

\* SensorMode unmounts: the cleanups of its effects run.
Unmount ==
    /\ mounted
    /\ mounted' = FALSE
    /\ tracksLive' = IF stopCameraStops(mountClosureStream) THEN FALSE
                     ELSE tracksLive
    /\ srcObject' = FALSE
    /\ effectHandle' = NoHandle
    /\ UNCHANGED <<camera, stream, error, device, focusVars, isFrozen, loops,
                   videoVars, sampleVars, lockVars, iccVars, reportVars,
                   patternVars>>

\* the variables of SensorMode that tap-to-focus leaves alone
focusFrame ==
    <<mounted, camera, tracksLive, stream, srcObject, error, device, videoVars,
      sampleVars, rafVars, iccVars, reportVars, patternVars>>

\* handleTapToFocus up to its first await: the guard, the focus ring, and
\* the applyConstraints call with pointsOfInterest.  getCapabilities is
\* called outside the try block, so when it throws no call is made.
handleTapToFocus ==
    /\ mounted /\ ~error
    /\ calibrationStage = "SETUP" /\ stream # "none"
    /\ focusPoint' = TRUE
    /\ IF device.queryThrows
       THEN UNCHANGED focusCalls
       ELSE /\ Len(focusCalls) < MaxFocusCalls
            /\ focusCalls' = Append(focusCalls,
                    [step |-> "pointsOfInterest", issuedIn |-> calibrationStage])
    /\ UNCHANGED <<focusSettled, lockVars, focusFrame>>

\* setTimeout(() => setFocusPoint(null), 1000) of the latest tap fires
FocusRingTimeout ==
    /\ mounted /\ focusPoint
    /\ focusPoint' = FALSE
    /\ UNCHANGED <<focusCalls, focusSettled, lockVars, focusFrame>>

\* An applyConstraints of a waiting handleTapToFocus call settles.  When the
\* first call rejects, the catch block makes the fallback call at once.
FocusSettle ==
    \E i \in DOMAIN focusCalls, outcome \in {"resolved", "rejected"} :
        LET call == focusCalls[i]
        IN  /\ focusCalls' =
                   IF outcome = "rejected" /\ call.step = "pointsOfInterest"
                   THEN [focusCalls EXCEPT ![i] =
                            [step |-> "fallback", issuedIn |-> calibrationStage]]
                   ELSE RemoveAt(focusCalls, i)
            /\ trackModes' =
                   IF outcome = "resolved"
                   THEN applyConstraints(trackModes, focusConstraints)
                   ELSE trackModes
            /\ focusSettled' = [flip |-> ~focusSettled.flip, step |-> call.step,
                                outcome |-> outcome, issuedIn |-> call.issuedIn,
                                settledIn |-> calibrationStage]
            /\ UNCHANGED <<focusPoint, calibrationStage, isHardwareLocked,
                           referenceWhite, lockCalls, lastLockWhite, lockSettled,
                           focusFrame>>

InitSampler == InitSensor({PlainDevice}, Scenes)

NextSampler ==
    \/ CameraGranted
    \/ CameraDenied
    \/ VideoFrame(MaxFrameChanges)
    \/ Tick(MaxSamples)
    \/ toggleFreeze
    \/ handleLockExposure(0)    \* the plain device never awaits
    \/ Reset
    \/ Unmount

SpecSampler == InitSampler /\ [][NextSampler]_vars

InitSession == InitSensor(Devices, SessionScenes)

NextSession ==
    \/ CameraGranted
    \/ CameraDenied
    \/ VideoFrame(MaxFrameChanges)
    \/ Tick(MaxSessionSamples)
    \/ toggleFreeze
    \/ handleLockExposure(MaxLockCalls)
    \/ LockSettle
    \/ Reset
    \/ Unmount

SpecSession == InitSession /\ [][NextSession]_vars

\* sessions with tap-to-focus, without frames
NextFocus ==
    \/ CameraGranted
    \/ CameraDenied
    \/ handleTapToFocus
    \/ FocusRingTimeout
    \/ FocusSettle
    \/ handleLockExposure(MaxLockCalls)
    \/ LockSettle
    \/ Reset
    \/ Unmount

SpecFocus == InitSession /\ [][NextFocus]_vars

\* sessions in front of uniform pictures, on the plain device
InitUniform == InitSensor({PlainDevice}, UniformScenes)

NextUniform ==
    \/ CameraGranted
    \/ CameraDenied
    \/ VideoFrame(MaxFrameChanges)
    \/ Tick(MaxSessionSamples)
    \/ toggleFreeze
    \/ handleLockExposure(0)
    \/ Reset
    \/ Unmount

SpecUniform == InitUniform /\ [][NextUniform]_vars

\* The browser runs the requested animation-frame callbacks: an animation
\* frame that can happen does happen.
SpecUniformFair == SpecUniform /\ WF_vars(Tick(MaxSessionSamples))



(***************************************************************************)
(* The pattern wizard on the display, with a phone beside it whose         *)
(* SensorMode is measuring and can be frozen and unfrozen.                 *)
(***************************************************************************)
\* SensorMode after the camera was granted and Lock was pressed on a plain
\* device, before the first frame
PhoneMeasuring ==
    /\ mounted = TRUE
    /\ camera = "granted"
    /\ tracksLive = TRUE
    /\ stream = "media"
    /\ srcObject = TRUE
    /\ error = FALSE
    /\ device = PlainDevice
    /\ scene = <<Uniform(Grey(100)), Uniform(RGB(100, 100, 106))>>
    /\ frame = NoFrame
    /\ frameChanges = 0
    /\ paused = FALSE
    /\ measuredRGB = RGB(0, 0, 0)
    /\ isFrozen = FALSE
    /\ isStable = FALSE
    /\ history = <<>>
    /\ calibrationStage = "MEASURING"
    /\ isHardwareLocked = FALSE
    /\ referenceWhite = RGB(0, 0, 0)
    /\ effectHandle = Handle(FALSE)
    /\ loops = 0
    /\ lockCalls = <<>>
    /\ trackModes = requestedModes
    /\ emitted = <<>>
    /\ lastLockWhite = RGB(0, 0, 0)
    /\ lockSettled = [flip |-> TRUE, white |-> RGB(0, 0, 0),
                      outcome |-> "unsupported"]
    /\ focusPoint = FALSE
    /\ focusCalls = <<>>
    /\ focusSettled = NoFocus

InitPattern ==
    /\ mode = "LANDING"
    /\ points \in PointLists
    /\ appMeasurements = points
    /\ measurements = NoArray
    /\ currentIndex = 0
    /\ manualR = <<>> /\ manualG = <<>> /\ manualB = <<>>
    /\ isUIVisible = TRUE
    /\ PhoneMeasuring
    /\ ICCIdle
    /\ ReportIdle

\* PatternGenerator's state after it unmounted
wizardGone ==
    /\ measurements' = NoArray
    /\ currentIndex' = 0
    /\ manualR' = <<>> /\ manualG' = <<>> /\ manualB' = <<>>
    /\ isUIVisible' = TRUE

\* requestFeatureAccess(DISPLAY_SOURCE): PatternGenerator mounts with
\* points = TARGET_POINTS
StartDisplay ==
    /\ mode = "LANDING"
    /\ mode' = "DISPLAY_SOURCE"
    /\ measurements' = spread(ArrayRef(points, TRUE))
    /\ currentIndex' = 0
    /\ manualR' = <<>> /\ manualG' = <<>> /\ manualB' = <<>>
    /\ isUIVisible' = TRUE
    /\ UNCHANGED <<appMeasurements, points, iccVars, reportVars, sensorVars>>

\* onChange of one of the three inputs
SetManual ==
    /\ mode = "DISPLAY_SOURCE" /\ isUIVisible
    /\ \/ \E v \in ManualInputs.r : manualR' = v /\ UNCHANGED <<manualG, manualB>>
       \/ \E v \in ManualInputs.g : manualG' = v /\ UNCHANGED <<manualR, manualB>>
       \/ \E v \in ManualInputs.b : manualB' = v /\ UNCHANGED <<manualR, manualG>>
    /\ UNCHANGED <<mode, appMeasurements, points, measurements, currentIndex,
                   isUIVisible, iccVars, reportVars, sensorVars>>

\* Hide Controls & Measure
HideControls ==
    /\ mode = "DISPLAY_SOURCE" /\ isUIVisible
    /\ isUIVisible' = FALSE
    /\ UNCHANGED <<mode, appMeasurements, points, measurements, currentIndex,
                   manualVars, iccVars, reportVars, sensorVars>>

\* a click anywhere while the controls are hidden
ShowControls ==
    /\ mode = "DISPLAY_SOURCE" /\ ~isUIVisible
    /\ isUIVisible' = TRUE
    /\ UNCHANGED <<mode, appMeasurements, points, measurements, currentIndex,
                   manualVars, iccVars, reportVars, sensorVars>>

\* handleNext, and handleDisplayComplete when the patch was the last one
handleNext ==
    /\ mode = "DISPLAY_SOURCE" /\ isUIVisible
    /\ LET currentPoint == points[currentIndex + 1]
           r == ParseIntOr(manualR, currentPoint.targetColor.r)
           g == ParseIntOr(manualG, currentPoint.targetColor.g)
           b == ParseIntOr(manualB, currentPoint.targetColor.b)
           copy == spread(measurements)
           updated == ArrayRef(
               [copy.items EXCEPT ![currentIndex + 1] =
                    [currentPoint EXCEPT !.measuredColor = RGB(r, g, b)]],
               copy.shared)
       IN  /\ points' = IF updated.shared THEN updated.items ELSE points
           /\ IF currentIndex < Len(points) - 1
              THEN /\ measurements' = updated
                   /\ currentIndex' = currentIndex + 1
                   /\ manualR' = <<>> /\ manualG' = <<>> /\ manualB' = <<>>
                   /\ isUIVisible' = TRUE
                   /\ UNCHANGED <<mode, appMeasurements>>
              ELSE /\ appMeasurements' = updated.items
                   /\ mode' = "REPORT"
                   /\ wizardGone
    /\ UNCHANGED <<iccVars, reportVars, sensorVars>>

\* resetApp: Cancel in the wizard, or Restart in the Report
resetApp ==
    /\ mode \in {"DISPLAY_SOURCE", "REPORT"}
    /\ mode = "DISPLAY_SOURCE" => isUIVisible
    /\ appMeasurements' = points
    /\ mode' = "LANDING"
    /\ wizardGone
    /\ UNCHANGED <<points, iccVars, reportVars, sensorVars>>

NextPattern ==
    \/ StartDisplay
    \/ SetManual
    \/ HideControls
    \/ ShowControls
    \/ handleNext
    \/ resetApp
    \/ toggleFreeze

SpecPattern == InitPattern /\ [][NextPattern]_vars

(***************************************************************************)
(* Reading an encoded profile back (offsets count from 0, as in the file). *)
(***************************************************************************)
ReadU32(buf, off) ==
    ((buf[off + 1] * 256 + buf[off + 2]) * 256 + buf[off + 3]) * 256 + buf[off + 4]

TagCountOf(buf) == ReadU32(buf, 128)

\* entry i (1-based) of the tag table
TagEntryOf(buf, i) ==
    LET at == 128 + 4 + 12 * (i - 1)
    IN  [sig    |-> SubSeq(buf, at + 1, at + 4),
         offset |-> ReadU32(buf, at + 4),
         length |-> ReadU32(buf, at + 8)]

Encoded == blob # <<>>

(***************************************************************************)
(* C1: the big-endian u32 at offset 0 of the encoded buffer equals the     *)
(* exact byte length of the buffer, for every CalibrationResult.           *)
(***************************************************************************)
C1_SizeFieldIsLength == Encoded => ReadU32(blob, 0) = Len(blob)

\* an encoding of a result whose profileName is empty has been made
C1_Witness == Encoded /\ encResult.profileName = <<>> /\ Len(blob) > 128

(***************************************************************************)
(* C2: every offset field of the tag table is a multiple of 4.             *)
(***************************************************************************)
C2_TagOffsetsAligned ==
    Encoded => \A i \in 1..TagCountOf(blob) : TagEntryOf(blob, i).offset % 4 = 0

\* an encoding whose first tag has a length that is no multiple of 4, so
\* that the next offset had to be aligned
C2_Witness ==
    /\ Encoded
    /\ TagCountOf(blob) = 9
    /\ TagEntryOf(blob, 1).length % 4 = 2
    /\ TagEntryOf(blob, 2).offset = TagEntryOf(blob, 1).offset
                                       + TagEntryOf(blob, 1).length + 2

(***************************************************************************)
(* C3: the table pass and the data pass agree.  For every entry i the      *)
(* bytes at [offset_i, offset_i + length_i) are the tag's data, length_i   *)
(* is the unpadded length, the bytes up to the next tag's offset (the      *)
(* buffer end for the last tag) are fewer than 4 zero bytes, and regions   *)
(* neither overlap nor pass the buffer end.                                *)
(***************************************************************************)
RegionEnd(buf, i) ==
    IF i < TagCountOf(buf) THEN TagEntryOf(buf, i + 1).offset ELSE Len(buf)

C3_TableMatchesData ==
    Encoded =>
      /\ TagCountOf(blob) = Len(tags(encResult))
      /\ \A i \in 1..TagCountOf(blob) :
            LET e   == TagEntryOf(blob, i)
                tag == tags(encResult)[i]
                end == e.offset + e.length
            IN  /\ e.sig = tag.sig
                /\ e.length = Len(tag.data)
                /\ end <= Len(blob)
                /\ SubSeq(blob, e.offset + 1, end) = tag.data
                /\ end <= RegionEnd(blob, i)
                /\ RegionEnd(blob, i) - end < 4
                /\ \A k \in (end + 1)..RegionEnd(blob, i) : blob[k] = 0

\* an encoding in which a tag's data is followed by padding: the desc tag
\* of a one-character name is 78 bytes long and is followed by 2 zero bytes
C3_Witness ==
    /\ Encoded
    /\ Len(encResult.profileName) = 1
    /\ TagEntryOf(blob, 1).length = 78
    /\ RegionEnd(blob, 1) = TagEntryOf(blob, 1).offset + 80


(***************************************************************************)
(* C4: whenever the oracle call fails (it throws, the API key is missing,  *)
(* the response text is absent or empty, or JSON.parse rejects the text    *)
(* the code hands it), analyzeCalibration resolves with the fallback       *)
(* result: gains 1.0, the requested gamma, the offline-mode profile name.  *)
(***************************************************************************)
\* the number each option of the Target Gamma select stands for
RequestedGamma(str) ==
    CASE str = <<"1", ".", "8">> -> Rat(9, 5)
      [] str = <<"2", ".", "0">> -> Rat(2, 1)
      [] str = <<"2", ".", "2">> -> Rat(11, 5)
      [] str = <<"2", ".", "4">> -> Rat(12, 5)

OracleFailed(c) ==
    \/ ~c.key
    \/ c.outcome.kind = "throw"
    \/ c.outcome.text = JsUndefined
    \/ c.outcome.text.chars = <<>>
    \/ JSON_parse(Trim(StripFences(c.outcome.text.chars))).throws

C4_FailureGivesFallback ==
    (lastCall.req # 0 /\ OracleFailed(lastCall)) =>
        /\ lastCall.ret.settled = "resolved"
        /\ lastCall.ret.value.type = "object"
        /\ lastCall.ret.value.profileName = "Basic Profile (Offline Mode)"
        /\ RatEq(lastCall.ret.value.redGain, Rat(1, 1))
        /\ RatEq(lastCall.ret.value.greenGain, Rat(1, 1))
        /\ RatEq(lastCall.ret.value.blueGain, Rat(1, 1))
        /\ RatEq(lastCall.ret.value.gamma,
                 RequestedGamma(lastCall.settings.targetGamma))

\* with a key present, the oracle answered text that is no JSON to a request
\* for gamma 2.4, and the Report shows the fallback
C4_Witness ==
    /\ lastCall.req # 0
    /\ lastCall.key
    /\ lastCall.outcome.kind = "response"
    /\ lastCall.outcome.text = Text(<<Garbage>>)
    /\ lastCall.settings.targetGamma = <<"2", ".", "4">>
    /\ result = lastCall.ret.value
    /\ ~loading

(***************************************************************************)
(* C5: whatever the oracle does, the value analyzeCalibration hands to the *)
(* Report is never null or undefined, so once loading has ended the Report *)
(* has a result to show.                                                   *)
(***************************************************************************)
Absent(v) == v = JsNull \/ v = JsUndefined

C5_ResultNeverAbsent ==
    /\ (lastCall.req # 0 /\ lastCall.ret.settled = "resolved")
          => ~Absent(lastCall.ret.value)
    /\ ~loading => ~Absent(result)

(***************************************************************************)
(* C6: in every reachable state the stable flag is a function of the       *)
(* history: false while the history holds fewer than 5 samples, and        *)
(* otherwise true exactly when the largest per-channel range (max - min    *)
(* over the history, over r, g, b) is below 6.                             *)
(***************************************************************************)
Channels == {"r", "g", "b"}

RangeBelow(h, limit) ==
    \A i \in DOMAIN h, j \in DOMAIN h, ch \in Channels :
        h[i][ch] - h[j][ch] < limit

C6_StableIsFunctionOfHistory ==
    isStable = (Len(history) >= 5 /\ RangeBelow(history, 6))

\* a stable reading over samples that differ (100 and 105: range 5)
C6_Witness ==
    /\ isStable
    /\ Len(history) >= 5
    /\ \E i \in DOMAIN history, j \in DOMAIN history :
           history[i].b - history[j].b = 5

(***************************************************************************)
(* C7: the history never holds more than 10 samples, and it always holds   *)
(* the most recent min(n, 10) of the n samples produced so far, in the     *)
(* order they arrived.                                                     *)
(***************************************************************************)
C7_HistoryIsLastTen ==
    LET n == Len(emitted)
        k == IF n < 10 THEN n ELSE 10
    IN  /\ Len(history) = k
        /\ \A i \in 1..k : history[i] = emitted[n - k + i]

\* the eleventh sample has pushed out the first, and the samples differ
C7_Witness ==
    /\ Len(emitted) = 11
    /\ Len(history) = 10
    /\ emitted[1] # emitted[11]
    /\ history[10] = emitted[11]
    /\ history[1] = emitted[2]

(***************************************************************************)
(* C8: while the session is frozen no sampling happens: measuredRGB, the   *)
(* history and the stable flag do not change.                              *)
(***************************************************************************)
C8_NoSamplingWhileFrozen ==
    [][(isFrozen /\ isFrozen') =>
           UNCHANGED <<measuredRGB, history, isStable>>]_vars

(***************************************************************************)
(* C9: whenever camera acquisition completed, before or after teardown     *)
(* began, every track of the acquired stream is stopped once the session   *)
(* is torn down.                                                           *)
(***************************************************************************)
C9_TracksStoppedAfterTeardown ==
    (~mounted /\ camera = "granted") => ~tracksLive

(***************************************************************************)
(* C10: a lock action taken in SETUP with the camera acquired ends, when   *)
(* its capability call settles (or at once, when it makes none), with the  *)
(* session in MEASURING whatever the outcome, and with referenceWhite      *)
(* equal to the sample that was current at the latest lock action, as long *)
(* as the session is still mounted.                                        *)
(***************************************************************************)
LockEnds == lockSettled' # lockSettled /\ mounted'

C10_LockReachesMeasuring ==
    [][LockEnds => /\ calibrationStage' = "MEASURING"
                   /\ referenceWhite' = lastLockWhite']_vars

\* a lock whose capability call was rejected, after a sample was measured
C10_Witness ==
    /\ mounted
    /\ lockSettled.outcome = "rejected"
    /\ lockSettled.white = RGB(100, 100, 100)
    /\ referenceWhite = lockSettled.white
    /\ calibrationStage = "MEASURING"
    /\ lockCalls = <<>>

\* C10 as stated: referenceWhite equals the sample that was current when
\* the lock action that now ends was taken.
C10_WhiteOfThisLock ==
    [][LockEnds => /\ calibrationStage' = "MEASURING"
                   /\ referenceWhite' = lockSettled'.white]_vars

(***************************************************************************)
(* C11: when a lock attempt ends, hardwareLocked is true only if the       *)
(* device offered manual control for all three of exposure, white balance  *)
(* and focus; if one of them is not offered, hardwareLocked is false, that *)
(* parameter is not switched to manual, and the session is in MEASURING.   *)
(***************************************************************************)
C11_LockedOnlyIfAllManual ==
    [][LockEnds =>
          /\ device.manual # Modes => ~isHardwareLocked'
          /\ \A m \in Modes \ device.manual : trackModes'[m] # "manual"
          /\ calibrationStage' = "MEASURING"]_vars

(***************************************************************************)
(* C12: whenever a lock attempt ends because the capability query or the   *)
(* apply call threw, be it the first attempt or one after resets, no error *)
(* is shown, the session is in MEASURING and hardwareLocked is false.      *)
(***************************************************************************)
LockThrew == LockEnds /\ lockSettled'.outcome \in {"rejected", "threw"}

C12_ThrowGivesDegraded ==
    [][LockThrew => /\ ~error'
                    /\ calibrationStage' = "MEASURING"
                    /\ ~isHardwareLocked']_vars

(***************************************************************************)
(* C13: Reset taken in MEASURING returns the session to SETUP and discards *)
(* the lock state: right after it hardwareLocked is false and              *)
(* referenceWhite is absent.                                               *)
(***************************************************************************)
ResetStep == calibrationStage = "MEASURING" /\ calibrationStage' = "SETUP"

C13_ResetDiscardsLockState ==
    [][ResetStep => ~isHardwareLocked' /\ referenceWhite' = NoRGB]_vars

(***************************************************************************)
(* C14: Reset after a lock puts exposure, white balance and focus of the   *)
(* camera track back to continuous mode: no parameter stays manual.        *)
(***************************************************************************)
C14_ResetRestoresContinuous ==
    [][ResetStep => \A m \in Modes : trackModes'[m] = "continuous"]_vars

(***************************************************************************)
(* C15: if the camera cannot be acquired, the error is shown, nothing      *)
(* acquires the camera later, and the session stays where it is: the stage *)
(* stays SETUP, no sample is produced, and hardwareLocked and              *)
(* referenceWhite keep their initial values.                               *)
(***************************************************************************)
C15_AcquisitionFailureAbsorbs ==
    camera = "denied" =>
        /\ mounted => error
        /\ stream = "none" /\ ~tracksLive /\ ~srcObject
        /\ calibrationStage = "SETUP"
        /\ lockCalls = <<>>
        /\ emitted = <<>> /\ history = <<>>
        /\ measuredRGB = RGB(0, 0, 0)
        /\ ~isHardwareLocked
        /\ referenceWhite = NoRGB

\* the error is shown and the sampling callback has run and ended
C15_Witness ==
    /\ camera = "denied"
    /\ mounted /\ error
    /\ ~effectHandle.armed /\ loops = 0

(***************************************************************************)
(* Reading tags of an encoded profile.                                     *)
(***************************************************************************)
\* the table entry with signature sig
TagBySig(buf, sig) ==
    TagEntryOf(buf, CHOOSE i \in 1..TagCountOf(buf) : TagEntryOf(buf, i).sig = sig)

\* the three s15.16 numbers of an XYZ tag, each as its 32-bit integer
XYZOf(buf, sig) ==
    LET at == TagBySig(buf, sig).offset + 8
    IN  <<ReadU32(buf, at), ReadU32(buf, at + 4), ReadU32(buf, at + 8)>>

ReadU16(buf, off) == buf[off + 1] * 256 + buf[off + 2]

UnitGains ==
    /\ RatEq(encResult.redGain, Rat(1, 1))
    /\ RatEq(encResult.greenGain, Rat(1, 1))
    /\ RatEq(encResult.blueGain, Rat(1, 1))

(***************************************************************************)
(* C18: with all gains 1.0 and gamma 2.2 the rXYZ, gXYZ and bXYZ tags hold *)
(* the s15.16 encodings (integer part, then floor(fraction * 65536)) of    *)
(* the sRGB-D50 primaries 0.436066/0.222488/0.013916,                      *)
(* 0.385147/0.716873/0.097076 and 0.143066/0.060608/0.714096, and the      *)
(* curve value of rTRC is 563.                                             *)
(***************************************************************************)
C18_UnitGainsGiveStandardPrimaries ==
    (Encoded /\ UnitGains /\ RatEq(encResult.gamma, Rat(22, 10))) =>
        /\ XYZOf(blob, Sig_rXYZ) = <<28578, 14580, 911>>
        /\ XYZOf(blob, Sig_gXYZ) = <<25240, 46980, 6361>>
        /\ XYZOf(blob, Sig_bXYZ) = <<9375, 3972, 46798>>
        /\ ReadU16(blob, TagBySig(blob, Sig_rTRC).offset + 12) = 563

C18_Witness ==
    /\ Encoded /\ UnitGains
    /\ RatEq(encResult.gamma, Rat(22, 10))
    /\ Len(encResult.profileName) = 3
    /\ TagBySig(blob, Sig_rXYZ).length = 20

(***************************************************************************)
(* C19: each primary tag depends only on its own channel's gain.  Encoding *)
(* the same result at the same clock time with one channel's gain changed  *)
(* gives a buffer of the same length that differs at most in the 12 XYZ    *)
(* bytes of that channel's tag, and these 12 bytes encode the channel's    *)
(* sRGB-D50 row multiplied component-wise by the new gain.                 *)
(***************************************************************************)
\* the 32-bit integer of the s15.16 encoding of v >= 0
S15_16(v) == Floor(v) * 65536 + FloorFrac65536(v)

C19_PrimaryDependsOnOwnGain ==
    blobOther # <<>> =>
        LET first == TagBySig(blob, encOther.sig).offset + 9
            g     == encOther.calib[encOther.changed]
        IN  /\ Len(blobOther) = Len(blob)
            /\ \A i \in 1..Len(blob) :
                   i \notin first..(first + 11) => blobOther[i] = blob[i]
            /\ XYZOf(blobOther, encOther.sig) =
                   << S15_16(RatMul(encOther.row.x, g)),
                      S15_16(RatMul(encOther.row.y, g)),
                      S15_16(RatMul(encOther.row.z, g)) >>

\* the green gain changed to a value that differs from the red, the blue
\* and the former green gain: only the green primary differs
C19_Witness ==
    /\ blobOther # <<>>
    /\ encOther.changed = "greenGain"
    /\ ~RatEq(encOther.calib.greenGain, encResult.greenGain)
    /\ ~RatEq(encOther.calib.greenGain, encResult.redGain)
    /\ ~RatEq(encOther.calib.greenGain, encResult.blueGain)
    /\ XYZOf(blobOther, Sig_gXYZ) # XYZOf(blob, Sig_gXYZ)
    /\ XYZOf(blobOther, Sig_rXYZ) = XYZOf(blob, Sig_rXYZ)

(***************************************************************************)
(* C20: for every gamma > 0 whose round(gamma * 256) fits 16 bits, each of *)
(* the rTRC, gTRC and bTRC tags carries the same curve data: type curv,    *)
(* curve-point count 1, and the 16-bit big-endian value round(gamma * 256).*)
(***************************************************************************)
TRCSigs == {Sig_rTRC, Sig_gTRC, Sig_bTRC}

CurveIs(buf, sig, value) ==
    LET e == TagBySig(buf, sig)
    IN  /\ e.length = 14
        /\ SubSeq(buf, e.offset + 1, e.offset + 4) = Sig_curv
        /\ ReadU32(buf, e.offset + 4) = 0
        /\ ReadU32(buf, e.offset + 8) = 1
        /\ ReadU16(buf, e.offset + 12) = value

GammaTimes256 == Round(RatMul(encResult.gamma, Rat(256, 1)))

C20_CurveIsRoundedGamma ==
    (Encoded /\ encResult.gamma.n > 0 /\ GammaTimes256 <= 65535) =>
        \A sig \in TRCSigs : CurveIs(blob, sig, GammaTimes256)

\* gamma 1.8: 460.8 is rounded up to 461
C20_Witness ==
    /\ Encoded
    /\ RatEq(encResult.gamma, Rat(18, 10))
    /\ \A sig \in TRCSigs : CurveIs(blob, sig, 461)

\* C20 as stated, for every gamma > 0
C20_CurveForEveryGamma ==
    (Encoded /\ encResult.gamma.n > 0) =>
        \A sig \in TRCSigs : CurveIs(blob, sig, GammaTimes256)

(***************************************************************************)
(* C16: capturing and advancing through all patches of a target list of    *)
(* length n hands onComplete a list of length n in the order of the input, *)
(* in which every measuredColor is present and every label and targetColor *)
(* is the input's; the shared input list itself is never changed.          *)
(***************************************************************************)
C16_CompleteListMatchesInput ==
    /\ points \in PointLists
    /\ mode = "REPORT" =>
          /\ Len(appMeasurements) = Len(points)
          /\ \A i \in 1..Len(points) :
                /\ appMeasurements[i].label = points[i].label
                /\ appMeasurements[i].targetColor = points[i].targetColor
                /\ appMeasurements[i].measuredColor # NoRGB

\* all six patches done: the first with typed values, the black point with
\* nothing typed
C16_Witness ==
    /\ mode = "REPORT"
    /\ Len(appMeasurements) = 6
    /\ appMeasurements[1].measuredColor = RGB(12, 300, 255)
    /\ appMeasurements[5].measuredColor = RGB(0, 0, 0)
    /\ points = TARGET_POINTS

(***************************************************************************)
(* C17: a measuredColor is written, the patch index advanced or the        *)
(* session completed only while the sampler is frozen, that is, after a    *)
(* freeze with no unfreeze in between.                                     *)
(***************************************************************************)
Advances ==
    /\ mode = "DISPLAY_SOURCE"
    /\ \/ mode' = "REPORT"
       \/ mode' = mode /\ measurements' # measurements
       \/ mode' = mode /\ currentIndex' # currentIndex

C17_AdvanceOnlyWhenFrozen == [][Advances => isFrozen]_vars

(***************************************************************************)
(* C21: the encoder is deterministic apart from the timestamp.  Two        *)
(* encodings of the same result have the same length and differ at most in *)
(* bytes 24 to 35 of the header; made at the same clock time they are      *)
(* byte-identical; the size field and every offset and length of the tag   *)
(* table are the same in both.                                             *)
(***************************************************************************)
C21_DeterministicApartFromDate ==
    blobOther # <<>> =>
        /\ Len(blobOther) = Len(blob)
        /\ \A off \in 0..(Len(blob) - 1) :
               off \notin 24..35 => blobOther[off + 1] = blob[off + 1]
        /\ encOther.clock = now => blobOther = blob
        /\ ReadU32(blobOther, 0) = ReadU32(blob, 0)
        /\ TagCountOf(blobOther) = TagCountOf(blob)
        /\ \A i \in 1..TagCountOf(blob) :
               TagEntryOf(blobOther, i) = TagEntryOf(blob, i)

\* the second encoding was made at another clock time, and every one of the
\* six date fields differs
C21_Witness ==
    /\ blobOther # <<>>
    /\ encOther.clock # now
    /\ \A k \in 0..5 : ReadU16(blobOther, 24 + 2 * k) # ReadU16(blob, 24 + 2 * k)
    /\ Len(encResult.profileName) = MaxNameLen

(***************************************************************************)
(* C22: for a frame whose centre patch is uniform, every pixel having the  *)
(* same colour (r, g, b), each sample produced from it equals (r, g, b)    *)
(* exactly; a uniform patch of (120, 200, 40) gives (120, 200, 40).        *)
(***************************************************************************)
\* a step that produces samples
Samples == emitted' # emitted

C22_UniformPatchSampledExactly ==
    [][(Samples /\ frame.a = frame.b) =>
           /\ measuredRGB' = frame.a
           /\ \A i \in (Len(emitted) + 1)..Len(emitted') : emitted'[i] = frame.a]_vars

\* the sample of the uniform patch (120, 200, 40) is on display
C22_Witness ==
    /\ frame = Uniform(RGB(120, 200, 40))
    /\ emitted # <<>>
    /\ emitted[Len(emitted)] = RGB(120, 200, 40)
    /\ measuredRGB = RGB(120, 200, 40)

(***************************************************************************)
(* C23: every RGB value the system holds has three integer channels within *)
(* 0..255: every sample the sampler emits, referenceWhite, and every       *)
(* measuredColor of the list handed over on completion, whatever the user  *)
(* typed into the wizard's R, G, B fields.                                 *)
(***************************************************************************)
InRange(c) == \A ch \in {"r", "g", "b"} : c[ch] \in 0..255

C23_EveryRGBInRange ==
    /\ \A i \in DOMAIN emitted : InRange(emitted[i])
    /\ InRange(measuredRGB)
    /\ referenceWhite # NoRGB => InRange(referenceWhite)
    /\ mode = "REPORT" =>
          \A i \in DOMAIN appMeasurements : InRange(appMeasurements[i].measuredColor)

(***************************************************************************)
(* C24: every result that reaches the encoder through the Report's         *)
(* download action has redGain, greenGain and blueGain within [0, 2] and   *)
(* gamma > 0, whether it came from the oracle's response or from the       *)
(* fallback.                                                               *)
(***************************************************************************)
GainValid(g) == g.n >= 0 /\ g.n <= 2 * g.d

C24_DownloadedResultIsValid ==
    blob # <<>> =>
        /\ GainValid(encResult.redGain)
        /\ GainValid(encResult.greenGain)
        /\ GainValid(encResult.blueGain)
        /\ encResult.gamma.n > 0

(***************************************************************************)
(* C25: after any sequence of freeze and unfreeze actions at most one      *)
(* sampling callback is armed for the next tick, so a tick produces at     *)
(* most one sample and adds at most one entry to the history; no earlier   *)
(* sampling loop runs alongside a new one.                                 *)
(***************************************************************************)
\* the requested callbacks that will sample: processFrame with isFrozen false
LiveCallbacks ==
    loops + (IF effectHandle.armed /\ ~effectHandle.frozen THEN 1 ELSE 0)

C25_OneCallbackPerTick ==
    [][/\ LiveCallbacks' <= 1
       /\ Len(emitted') <= Len(emitted) + 1]_vars

(***************************************************************************)
(* C26: under every interleaving of the tap-to-focus handler and the lock  *)
(* handler, a tap-to-focus constraint (pointsOfInterest or focusMode       *)
(* continuous) is requested and applied to the camera track only while the *)
(* stage is SETUP, never once it is MEASURING.                             *)
(***************************************************************************)
\* a step in which a tap-to-focus applyConstraints resolves
FocusApplied ==
    focusSettled' # focusSettled /\ focusSettled'.outcome = "resolved"

C26_FocusOnlyInSetup ==
    [][FocusApplied => /\ focusSettled'.issuedIn = "SETUP"
                       /\ focusSettled'.settledIn = "SETUP"]_vars

(***************************************************************************)
(* C27: when the settings change while an earlier analysis request is in   *)
(* flight, then once every request has settled the Report shows the result *)
(* computed for the latest settings (the last write to result came from    *)
(* the latest request; without an API key it is the fallback for the       *)
(* current settings), and loading is shown as long as the latest request   *)
(* is pending.                                                             *)
(***************************************************************************)
C27_LatestRequestWins ==
    /\ (nextReq > 0 /\ pending = {}) =>
          /\ lastCall.req = nextReq
          /\ ~apiKey => result = fallbackResult(settings)
    /\ (\E p \in pending : p.req = nextReq) => loading

(***************************************************************************)
(* C28: the advance step saves the manual input.  When each of the three   *)
(* fields is empty or holds an integer within 0..255, the measuredColor    *)
(* stored for the active patch has, per channel, the integer typed, or the *)
(* target colour's value where the field was left empty.                   *)
(***************************************************************************)
\* the field is empty or holds the decimal digits of an integer in 0..255
ByteOrEmpty(str) ==
    \/ str = <<>>
    \/ /\ DigitsEnd(str, 1) = Len(str) + 1
       /\ DigitsValue(str, 1, Len(str) + 1) \in 0..255

\* the value a field stands for
Entered(str, target) ==
    IF str = <<>> THEN target ELSE DigitsValue(str, 1, Len(str) + 1)

C28_AdvanceSavesManualInput ==
    [][(Advances /\ ByteOrEmpty(manualR) /\ ByteOrEmpty(manualG)
                 /\ ByteOrEmpty(manualB)) =>
          LET target == points[currentIndex + 1].targetColor
              stored == IF mode' = "REPORT"
                        THEN appMeasurements'[currentIndex + 1].measuredColor
                        ELSE measurements'.items[currentIndex + 1].measuredColor
          IN  stored = RGB(Entered(manualR, target.r), Entered(manualG, target.g),
                           Entered(manualB, target.b))]_vars

(***************************************************************************)
(* C29: every value v the encoder writes as s15.16 (each primary component *)
(* scaled by a gain in [0, 2], and the D50 constants) has 0 <= v < 2, and  *)
(* its four big-endian bytes hold floor(v) in the high and                 *)
(* floor((v - floor(v)) * 65536) in the low 16 bits, so that the word is   *)
(* floor(v * 65536) and nothing wraps; the wtpt tag and the header         *)
(* illuminant at offset 68 carry the same 12 bytes.                        *)
(***************************************************************************)
FixedIs(word, v) ==
    /\ v.n >= 0 /\ v.n < 2 * v.d
    /\ word \div 65536 = Floor(v)
    /\ word % 65536 = FloorFrac65536(v)
    /\ word < 2 * 65536

\* floor(0.9642 * 65536), 1.0 * 65536, floor(0.8249 * 65536)
D50Words == <<63189, 65536, 54060>>

C29_FixedPointWordsExact ==
    Encoded =>
        /\ \A c \in GainChannels :
               LET g     == encResult[c.gain]
                   words == XYZOf(blob, c.sig)
               IN  /\ FixedIs(words[1], RatMul(c.row.x, g))
                   /\ FixedIs(words[2], RatMul(c.row.y, g))
                   /\ FixedIs(words[3], RatMul(c.row.z, g))
        /\ XYZOf(blob, Sig_wtpt) = D50Words
        /\ FixedIs(D50Words[1], D50.x) /\ FixedIs(D50Words[2], D50.y)
        /\ FixedIs(D50Words[3], D50.z)
        /\ <<ReadU32(blob, 68), ReadU32(blob, 72), ReadU32(blob, 76)>> = D50Words
        /\ LET at == TagBySig(blob, Sig_wtpt).offset + 8
           IN  SubSeq(blob, at + 1, at + 12) = SubSeq(blob, 69, 80)

\* the largest value written: the green primary's Y with gain 2, whose
\* integer part is 1 (1.433746 is written as 1 and 28425)
C29_Witness ==
    /\ Encoded
    /\ RatEq(encResult.greenGain, Rat(2, 1))
    /\ XYZOf(blob, Sig_gXYZ)[2] = 65536 + 28425
    /\ RatEq(encResult.redGain, Rat(0, 1))
    /\ XYZOf(blob, Sig_rXYZ) = <<0, 0, 0>>

(***************************************************************************)
(* C30: while the video has no frame yet, no sample is emitted             *)
(* (measuredRGB, the history and the stable flag keep their values) and no *)
(* error is raised, and a tick leaves every live callback armed again; so  *)
(* once the video has a frame and the session is not frozen, a sample is   *)
(* eventually produced (unless the session is frozen or unmounted first).  *)
(***************************************************************************)
\* an animation frame (no other step leaves all of these unchanged) while
\* the <video> is rendered and has no frame yet
TickBeforeFirstFrame ==
    /\ refsPresent /\ frame = NoFrame
    /\ UNCHANGED <<mounted, camera, videoVars, lockVars, focusVars, isFrozen>>

\* the sampler can run: rendered, with a frame, not frozen
CanSample(n) ==
    /\ refsPresent /\ frame # NoFrame /\ ~isFrozen
    /\ Len(emitted) = n

C30_SkipsUntilFirstFrame ==
    /\ [][TickBeforeFirstFrame =>
             /\ UNCHANGED <<measuredRGB, history, isStable, emitted>>
             /\ error' = error
             /\ LiveCallbacks' = LiveCallbacks]_vars
    /\ \A n \in 0..(MaxSessionSamples - MaxLoops) :
           CanSample(n) ~> (Len(emitted) > n \/ isFrozen \/ ~mounted)

\* a tick has run without a frame: the callback of the effect has become a
\* loop of its own, and nothing was sampled
C30_Witness ==
    /\ mounted /\ camera = "granted" /\ ~error
    /\ frame = NoFrame
    /\ ~effectHandle.armed /\ loops = 1
    /\ emitted = <<>> /\ measuredRGB = RGB(0, 0, 0) /\ ~isStable

=============================================================================
